---- MODULE Spec2Model ----
(***************************************************************************)
(* Fuzzy Mental Health Assessment (streamlit_app.py).                      *)
(*                                                                         *)
(* Numbers.  Slider values are tenths of a point (0..100 for 0.0..10.0,    *)
(* the slider step being 0.1).  Membership degrees are integers in units   *)
(* of 1/DegScale.  Points of the output universe are integers in units of  *)
(* 1/UFine of a grid step, so that the grid points np.linspace(0,10,101)   *)
(* are the multiples of UFine and the points the defuzzifier adds between  *)
(* them are integers too.  A score is a rational [num, den] in points.     *)
(***************************************************************************)
EXTENDS Integers, Sequences, FiniteSets, TLC

DegScale == 240
UFine == 6
GridN == 100

(* ----------------------------------------------------------------------- *)
(* Widgets                                                                  *)
(* ----------------------------------------------------------------------- *)
FuzzyNames ==
    << "happiness", "anxiety", "sadness", "irritability", "calmness",
       "stress", "sleep_quality", "energy", "motivation", "concentration",
       "appetite", "social", "workload" >>

SafetyNames == << "suicidal", "selfharm" >>

SeqRange(s) == { s[i] : i \in 1..Len(s) }

AntecedentSet == SeqRange(FuzzyNames)

SliderNames == AntecedentSet \cup SeqRange(SafetyNames)

SliderMin == 0
SliderMax == 100

(* ----------------------------------------------------------------------- *)
(* Membership functions                                                     *)
(* ----------------------------------------------------------------------- *)
Min2(a, b) == IF a <= b THEN a ELSE b
Max2(a, b) == IF a >= b THEN a ELSE b

(* trimf without the final assignment of 1 at x = b *)
trimf_no_peak(x, abc) ==
    LET a == abc[1]
        b == abc[2]
        c == abc[3]
    IN  IF a # b /\ a < x /\ x < b THEN ((x - a) * DegScale) \div (b - a)
        ELSE IF b # c /\ b < x /\ x < c THEN ((c - x) * DegScale) \div (c - b)
        ELSE 0

(* fuzz.trimf(x, [a, b, c]) at one point x (tenths), degree in 1/DegScale:  *)
(* zero everywhere, the left side where a < x < b, the right side where     *)
(* b < x < c, then 1 at x = b.                                              *)
trimf(x, abc) ==
    LET a == abc[1]
        b == abc[2]
        c == abc[3]
    IN  IF x = b THEN DegScale
        ELSE IF a # b /\ a < x /\ x < b THEN ((x - a) * DegScale) \div (b - a)
        ELSE IF b # c /\ b < x /\ x < c THEN ((c - x) * DegScale) \div (c - b)
        ELSE 0

(* the universe np.linspace(0, 10, 101), in tenths *)
u == [ i \in 0..GridN |-> i ]

(* a term is the array of its degrees over the universe *)
trimf_array(abc) == [ i \in DOMAIN u |-> trimf(u[i], abc) ]

(* add_lmh: the three terms of every antecedent *)
add_lmh ==
    [ low    |-> trimf_array(<< 0, 0, 40 >>),
      medium |-> trimf_array(<< 20, 50, 80 >>),
      high   |-> trimf_array(<< 60, 100, 100 >>) ]

(* the three terms of the consequent *)
distress ==
    [ low      |-> trimf_array(<< 0, 0, 40 >>),
      moderate |-> trimf_array(<< 30, 50, 70 >>),
      high     |-> trimf_array(<< 60, 100, 100 >>) ]

DistressTerms == << "low", "moderate", "high" >>

(* ----------------------------------------------------------------------- *)
(* Rule base                                                                *)
(* ----------------------------------------------------------------------- *)
Leaf(v, t) == [ op |-> "term", var |-> v, term |-> t ]
And(l, r)  == [ op |-> "and", left |-> l, right |-> r ]
Or(l, r)   == [ op |-> "or", left |-> l, right |-> r ]
Rule(a, c) == [ antecedent |-> a, consequent |-> c ]

complex_rules ==
    << Rule(And(Leaf("stress", "high"), Leaf("sleep_quality", "low")), "high"),
       Rule(And(Leaf("anxiety", "high"), Leaf("concentration", "low")), "high"),
       Rule(And(And(Leaf("sadness", "high"), Leaf("motivation", "low")),
                Leaf("social", "low")), "high"),
       Rule(And(And(Leaf("workload", "high"), Leaf("energy", "low")),
                Leaf("stress", "high")), "high"),
       Rule(And(And(Leaf("irritability", "high"), Leaf("sleep_quality", "low")),
                Leaf("stress", "high")), "high"),
       Rule(And(And(Leaf("happiness", "high"), Leaf("calmness", "high")),
                Leaf("stress", "low")), "low"),
       Rule(And(And(Leaf("energy", "high"), Leaf("motivation", "high")),
                Leaf("sleep_quality", "high")), "low"),
       Rule(And(Leaf("anxiety", "high"), Leaf("sleep_quality", "low")), "moderate"),
       Rule(And(Leaf("sadness", "medium"), Leaf("motivation", "low")), "moderate"),
       Rule(Or(Leaf("appetite", "low"), Leaf("appetite", "high")), "moderate") >>

baseline ==
    << << "happiness", "high", "low" >>,      << "happiness", "low", "moderate" >>,
       << "anxiety", "high", "high" >>,       << "anxiety", "medium", "moderate" >>,
       << "sadness", "high", "high" >>,       << "sadness", "medium", "moderate" >>,
       << "irritability", "high", "high" >>,  << "irritability", "low", "low" >>,
       << "calmness", "high", "low" >>,       << "calmness", "low", "moderate" >>,
       << "stress", "high", "high" >>,        << "stress", "medium", "moderate" >>,
       << "sleep_quality", "low", "high" >>,  << "sleep_quality", "high", "low" >>,
       << "energy", "low", "high" >>,         << "energy", "high", "low" >>,
       << "motivation", "low", "high" >>,     << "motivation", "high", "low" >>,
       << "concentration", "low", "high" >>,  << "concentration", "high", "low" >>,
       << "appetite", "low", "moderate" >>,   << "appetite", "high", "moderate" >>,
       << "social", "low", "moderate" >>,     << "social", "high", "low" >>,
       << "workload", "high", "high" >>,      << "workload", "low", "low" >> >>

rules ==
    complex_rules \o
    [ i \in 1..Len(baseline) |->
        Rule(Leaf(baseline[i][1], baseline[i][2]), baseline[i][3]) ]

(* ----------------------------------------------------------------------- *)
(* Inference: ControlSystemSimulation.compute()                             *)
(* ----------------------------------------------------------------------- *)
(* degree of an antecedent expression at the crisp inputs: a term is the    *)
(* membership of the input, & is the minimum, | is the maximum              *)
RECURSIVE membership_value(_, _)
membership_value(e, in) ==
    IF e.op = "term" THEN add_lmh[e.term][in[e.var]]
    ELSE IF e.op = "and"
         THEN Min2(membership_value(e.left, in), membership_value(e.right, in))
         ELSE Max2(membership_value(e.left, in), membership_value(e.right, in))

aggregate_firing(r, in) == membership_value(rules[r].antecedent, in)

(* accumulation: the cut of an output term is the maximum of the firing     *)
(* strengths of the rules that conclude it                                  *)
RECURSIVE accumulate(_, _, _)
accumulate(t, in, r) ==
    IF r = 0 THEN 0
    ELSE IF rules[r].consequent = t
         THEN Max2(aggregate_firing(r, in), accumulate(t, in, r - 1))
         ELSE accumulate(t, in, r - 1)

cuts(in) == [ t \in SeqRange(DistressTerms) |-> accumulate(t, in, Len(rules)) ]

(* interp_membership(universe, mf, X): linear interpolation of the term's   *)
(* grid values at a point X of the upsampled universe (units of 1/UFine)    *)
interp_membership(t, X) ==
    LET g  == X \div UFine
        r  == X % UFine
    IN  IF r = 0 THEN distress[t][g]
        ELSE distress[t][g]
             + ((distress[t][g + 1] - distress[t][g]) * r) \div UFine

(* interp_universe(universe, mf, y): the points between neighbouring grid   *)
(* points where the term's membership crosses the level y                   *)
interp_universe(t, y) ==
    LET above(i) == IF y = 0 THEN distress[t][i] > y ELSE distress[t][i] >= y
    IN  { UFine * i + ((y - distress[t][i]) * UFine)
                        \div (distress[t][i + 1] - distress[t][i]) :
            i \in { j \in 0..(GridN - 1) : above(j) # above(j + 1) } }

RECURSIVE SortedSeq(_)
SortedSeq(S) ==
    IF S = {} THEN << >>
    ELSE LET m == CHOOSE a \in S : \A b \in S : a <= b
         IN  << m >> \o SortedSeq(S \ {m})

universe == [ j \in 1..(GridN + 1) |-> UFine * u[j - 1] ]

(* np.union1d(universe, new_values): the grid and the crossing points,      *)
(* sorted, without duplicates; new holds the sorted crossing points that    *)
(* are not grid points, from the grid point at position first on            *)
RECURSIVE union1d(_, _)
union1d(new, first) ==
    IF new = << >> THEN SubSeq(universe, first, GridN + 1)
    ELSE LET below == (Head(new) \div UFine) + 1
         IN  SubSeq(universe, first, below) \o << Head(new) >>
             \o union1d(Tail(new), below + 1)

new_universe(c) ==
    LET new_values ==
            UNION { interp_universe(t, c[t]) : t \in SeqRange(DistressTerms) }
    IN  union1d(SortedSeq({ X \in new_values : X % UFine # 0 }), 1)

(* the aggregated output set at X: every term clipped at its cut            *)
(* (np.minimum), the clipped terms joined by np.maximum                     *)
output_mf(c, X) ==
    Max2(Min2(c.low, interp_membership("low", X)),
         Max2(Min2(c.moderate, interp_membership("moderate", X)),
              Min2(c.high, interp_membership("high", X))))

(* defuzzify.centroid(x, mfx): moment and area of every piece between two   *)
(* neighbouring points; both sums are kept multiplied by 6                  *)
piece(x1, x2, y1, y2) ==
    LET dx == x2 - x1
    IN  IF (y1 = 0 /\ y2 = 0) \/ x1 = x2 THEN [ ma |-> 0, a |-> 0 ]
        ELSE IF y1 = y2
             THEN [ ma |-> 3 * (x1 + x2) * dx * y1, a |-> 6 * dx * y1 ]
        ELSE IF y1 = 0
             THEN [ ma |-> (2 * dx + 3 * x1) * dx * y2, a |-> 3 * dx * y2 ]
        ELSE IF y2 = 0
             THEN [ ma |-> (dx + 3 * x1) * dx * y1, a |-> 3 * dx * y1 ]
        ELSE [ ma |-> dx * dx * (2 * y2 + y1) + 3 * x1 * dx * (y1 + y2),
               a  |-> 3 * dx * (y1 + y2) ]

(* the loop of centroid over the pieces lo..hi (piece i lies between the    *)
(* points i-1 and i); the sums are associative, so the range is halved      *)
RECURSIVE centroid(_, _, _, _)
centroid(x, mfx, lo, hi) ==
    IF lo = hi THEN piece(x[lo - 1], x[lo], mfx[lo - 1], mfx[lo])
    ELSE LET mid == (lo + hi) \div 2
             l   == centroid(x, mfx, lo, mid)
             r   == centroid(x, mfx, mid + 1, hi)
         IN  [ ma |-> l.ma + r.ma, a |-> l.a + r.a ]

(* Python's None: for a score, and for a list or a text                     *)
None == [ none |-> TRUE ]
Absent == << "<None>" >>
NoRisk == "<None>"

(* scores are rationals in points *)
Rat(n, d) == [ num |-> n, den |-> d ]
RatLeq(p, q) == p.num * q.den <= q.num * p.den
RatLt(p, q) == p.num * q.den < q.num * p.den

(* defuzz returning the moment sum without the division by the area *)
defuzz_unnormalised(c) ==
    LET x   == new_universe(c)
        mfx == [ j \in 1..Len(x) |-> output_mf(c, x[j]) ]
        s   == centroid(x, mfx, 2, Len(x))
    IN  IF \A j \in 1..Len(x) : mfx[j] = 0 THEN None
        ELSE Rat(s.ma, UFine * 10)

(* the aggregated output set over the points lo..hi of x, as a sequence *)
RECURSIVE output_mf_array(_, _, _, _)
output_mf_array(c, x, lo, hi) ==
    IF lo = hi THEN << output_mf(c, x[lo]) >>
    ELSE output_mf_array(c, x, lo, (lo + hi) \div 2)
         \o output_mf_array(c, x, ((lo + hi) \div 2) + 1, hi)

(* CrispValueCalculator.defuzz(): the centroid of the aggregated set, or an *)
(* error (None here) when the aggregated set is zero everywhere             *)
defuzz(c) ==
    LET x   == new_universe(c)
        mfx == output_mf_array(c, x, 1, Len(x))
        s   == centroid(x, mfx, 2, Len(x))
    IN  IF \A j \in 1..Len(x) : mfx[j] = 0 THEN None
        ELSE Rat(s.ma, s.a * UFine * 10)

(* distress_sim.compute() and the except branch: the score or None *)
compute(in) == defuzz(cuts(in))

(* ----------------------------------------------------------------------- *)
(* keyword_emergency_check                                                  *)
(* ----------------------------------------------------------------------- *)
(* a text is a sequence of one-character strings                            *)
UpperCase ==
    << "A", "B", "C", "D", "E", "F", "G", "H", "I", "J", "K", "L", "M", "N", "O", "P", "Q", "R", "S", "T", "U", "V", "W", "X", "Y", "Z" >>
LowerCase ==
    << "a", "b", "c", "d", "e", "f", "g", "h", "i", "j", "k", "l", "m", "n", "o", "p", "q", "r", "s", "t", "u", "v", "w", "x", "y", "z" >>

to_lower(c) ==
    IF \E j \in 1..Len(UpperCase) : UpperCase[j] = c
    THEN LowerCase[CHOOSE j \in 1..Len(UpperCase) : UpperCase[j] = c]
    ELSE c

(* str.lower() *)
RECURSIVE lower(_)
lower(text) ==
    IF text = << >> THEN << >>
    ELSE << to_lower(Head(text)) >> \o lower(Tail(text))

(* k in txt *)
contains(k, txt) ==
    \E i \in 1..(Len(txt) - Len(k) + 1) : SubSeq(txt, i, i + Len(k) - 1) = k

keywords ==
    << << "s", "u", "i", "c", "i", "d", "e" >>,
       << "k", "i", "l", "l", " ", "m", "y", "s", "e", "l", "f" >>,
       << "k", "i", "l", "l", "i", "n", "g", " ", "m", "y", "s", "e", "l", "f" >>,
       << "s", "u", "i", "c", "i", "d", "a", "l" >>,
       << "h", "u", "r", "t", " ", "m", "y", "s", "e", "l", "f" >>,
       << "n", "o", " ", "p", "o", "i", "n", "t" >>,
       << "h", "o", "p", "e", "l", "e", "s", "s" >>,
       << "d", "i", "e" >>,
       << "d", "e", "a", "t", "h" >>,
       << "k", "i", "l", "l", " ", "m", "e" >> >>

emergency_triggers ==
    << << "s", "u", "i", "c", "i", "d", "e" >>,
       << "k", "i", "l", "l", " ", "m", "y", "s", "e", "l", "f" >>,
       << "k", "i", "l", "l", "i", "n", "g", " ", "m", "y", "s", "e", "l", "f" >>,
       << "s", "u", "i", "c", "i", "d", "a", "l" >>,
       << "h", "u", "r", "t", " ", "m", "y", "s", "e", "l", "f" >>,
       << "k", "i", "l", "l", " ", "m", "e" >> >>

RECURSIVE SelectIn(_, _)
SelectIn(ks, txt) ==
    IF ks = << >> THEN << >>
    ELSE (IF contains(Head(ks), txt) THEN << Head(ks) >> ELSE << >>)
         \o SelectIn(Tail(ks), txt)

(* the check without text.lower() *)
keyword_emergency_check_case(text) ==
    IF text = Absent \/ text = << >> THEN << FALSE, << >> >>
    ELSE << \E i \in 1..Len(emergency_triggers) :
                contains(emergency_triggers[i], text),
            SelectIn(keywords, text) >>

(* returns << is_emergency, found >> *)
keyword_emergency_check(text) ==
    IF text = Absent \/ text = << >> THEN << FALSE, << >> >>
    ELSE LET txt == lower(text)
         IN  << \E i \in 1..Len(emergency_triggers) :
                    contains(emergency_triggers[i], txt),
                SelectIn(keywords, txt) >>

(* ----------------------------------------------------------------------- *)
(* generate_recommendations                                                 *)
(* ----------------------------------------------------------------------- *)
UnableMsg   == "Unable to compute distress score."
LowMsg      == "Your distress level appears low."
MildMsg     == "Your distress is mild."
ModerateMsg == "Your distress is moderate."
HighMsg     == "Your distress is high."
VeryHighMsg == "Your distress is very high."
CrisisMsg   == "- You are showing signs of significant distress."
FallbackMsg == "No concerning patterns detected"

(* the pattern tags in the order the function tests them, each with the     *)
(* message it appends                                                       *)
PatternMsgs ==
    << << "Appetite Change",    "- Appetite changes detected." >>,
       << "Sleep Irregularity", "- Sleep irregularities noted." >>,
       << "Low Motivation",     "- Low motivation observed." >>,
       << "Anxiety Indicators", "- Anxiety patterns detected." >>,
       << "Social Withdrawal",  "- Reduced social interaction detected." >>,
       << "Irritability Spike", "- Increased irritability detected." >>,
       << "Low Energy Pattern", "- Low energy levels identified." >>,
       << "Suicidal Ideation",  "- Suicidal thoughts detected." >>,
       << "Self-harm Thoughts", "- Self-harm thoughts detected." >> >>

RECURSIVE pattern_recommendations(_, _)
pattern_recommendations(patterns, i) ==
    IF i > Len(PatternMsgs) THEN << >>
    ELSE (IF PatternMsgs[i][1] \in SeqRange(patterns)
          THEN << PatternMsgs[i][2] >> ELSE << >>)
         \o pattern_recommendations(patterns, i + 1)

(* the bands with their upper ends excluded *)
score_band_strict(score) ==
    IF RatLt(score, Rat(2, 1)) THEN LowMsg
    ELSE IF RatLt(score, Rat(4, 1)) THEN MildMsg
    ELSE IF RatLt(score, Rat(6, 1)) THEN ModerateMsg
    ELSE IF RatLt(score, Rat(8, 1)) THEN HighMsg
    ELSE VeryHighMsg

score_band(score) ==
    IF RatLeq(score, Rat(2, 1)) THEN LowMsg
    ELSE IF RatLt(Rat(2, 1), score) /\ RatLeq(score, Rat(4, 1)) THEN MildMsg
    ELSE IF RatLt(Rat(4, 1), score) /\ RatLeq(score, Rat(6, 1)) THEN ModerateMsg
    ELSE IF RatLt(Rat(6, 1), score) /\ RatLeq(score, Rat(8, 1)) THEN HighMsg
    ELSE VeryHighMsg

(* the crisis message appended before the pattern messages *)
generate_recommendations_crisis_first(score, patterns, crisis_trigger) ==
    IF score = None THEN << UnableMsg >>
    ELSE LET r1 == << score_band(score) >>
             r2 == IF crisis_trigger THEN Append(r1, CrisisMsg) ELSE r1
         IN  IF patterns # << >>
             THEN r2 \o pattern_recommendations(patterns, 1)
             ELSE r2

generate_recommendations(score, patterns, crisis_trigger) ==
    IF score = None THEN << UnableMsg >>
    ELSE LET r1 == << score_band(score) >>
             r2 == IF patterns # << >>
                   THEN r1 \o pattern_recommendations(patterns, 1)
                   ELSE r1
             r3 == IF crisis_trigger THEN Append(r2, CrisisMsg) ELSE r2
         IN  IF r3 = << >> THEN << FallbackMsg >> ELSE r3

(* ----------------------------------------------------------------------- *)
(* The handler of "Run Fuzzy Assessment", in its parts                      *)
(* ----------------------------------------------------------------------- *)
(* score or 0 *)
or0(score) == IF score = None \/ score.num = 0 THEN Rat(0, 1) ELSE score

(* max(a, b) of Python: b only when it is greater *)
max(a, b) == IF RatLt(a, b) THEN b ELSE a

(* the override assigning the floor instead of taking the maximum *)
crisis_override_replace(score, suicidal, selfharm, emg) ==
    IF suicidal >= 70 \/ selfharm >= 70 \/ emg
    THEN << Rat(19, 2), TRUE >>
    ELSE IF suicidal >= 40 \/ selfharm >= 40
    THEN << Rat(8, 1), TRUE >>
    ELSE IF suicidal > 0 \/ selfharm > 0
    THEN << Rat(6, 1), TRUE >>
    ELSE << score, FALSE >>

(* the override leaving a missing score missing *)
crisis_override_skip_none(score, suicidal, selfharm, emg) ==
    IF score = None THEN << None, suicidal > 0 \/ selfharm > 0 \/ emg >>
    ELSE IF suicidal >= 70 \/ selfharm >= 70 \/ emg
    THEN << max(score, Rat(19, 2)), TRUE >>
    ELSE IF suicidal >= 40 \/ selfharm >= 40
    THEN << max(score, Rat(8, 1)), TRUE >>
    ELSE IF suicidal > 0 \/ selfharm > 0
    THEN << max(score, Rat(6, 1)), TRUE >>
    ELSE << score, FALSE >>

(* the override without its tier for any non-zero signal *)
crisis_override_two_tiers(score, suicidal, selfharm, emg) ==
    IF suicidal >= 70 \/ selfharm >= 70 \/ emg
    THEN << max(or0(score), Rat(19, 2)), TRUE >>
    ELSE IF suicidal >= 40 \/ selfharm >= 40
    THEN << max(or0(score), Rat(8, 1)), TRUE >>
    ELSE << score, FALSE >>

(* crisis override: << score, crisis_trigger >> *)
crisis_override(score, suicidal, selfharm, emg) ==
    IF suicidal >= 70 \/ selfharm >= 70 \/ emg
    THEN << max(or0(score), Rat(19, 2)), TRUE >>
    ELSE IF suicidal >= 40 \/ selfharm >= 40
    THEN << max(or0(score), Rat(8, 1)), TRUE >>
    ELSE IF suicidal > 0 \/ selfharm > 0
    THEN << max(or0(score), Rat(6, 1)), TRUE >>
    ELSE << score, FALSE >>

(* the risk levels cut at 3 and 6 *)
risk_level_low_cut(score) ==
    IF RatLeq(score, Rat(3, 1)) THEN "LOW"
    ELSE IF RatLeq(score, Rat(6, 1)) THEN "MODERATE"
    ELSE "HIGH"

risk_level(score) ==
    IF RatLeq(score, Rat(3, 1)) THEN "LOW"
    ELSE IF RatLeq(score, Rat(7, 1)) THEN "MODERATE"
    ELSE "HIGH"

(* pattern detection with strict comparisons *)
detect_patterns_strict(s) ==
    (IF s["appetite"] < 30 \/ s["appetite"] > 80
     THEN << "Appetite Change" >> ELSE << >>)
    \o (IF s["sleep_quality"] < 40 THEN << "Sleep Irregularity" >> ELSE << >>)
    \o (IF s["motivation"] < 30 THEN << "Low Motivation" >> ELSE << >>)
    \o (IF s["anxiety"] > 60 THEN << "Anxiety Indicators" >> ELSE << >>)
    \o (IF s["social"] < 20 THEN << "Social Withdrawal" >> ELSE << >>)
    \o (IF s["irritability"] > 60 THEN << "Irritability Spike" >> ELSE << >>)
    \o (IF s["energy"] < 30 THEN << "Low Energy Pattern" >> ELSE << >>)
    \o (IF s["suicidal"] > 0 THEN << "Suicidal Ideation" >> ELSE << >>)
    \o (IF s["selfharm"] > 0 THEN << "Self-harm Thoughts" >> ELSE << >>)

(* pattern detection over the raw slider values *)
detect_patterns(s) ==
    (IF s["appetite"] <= 30 \/ s["appetite"] >= 80
     THEN << "Appetite Change" >> ELSE << >>)
    \o (IF s["sleep_quality"] <= 40 THEN << "Sleep Irregularity" >> ELSE << >>)
    \o (IF s["motivation"] <= 30 THEN << "Low Motivation" >> ELSE << >>)
    \o (IF s["anxiety"] >= 60 THEN << "Anxiety Indicators" >> ELSE << >>)
    \o (IF s["social"] <= 20 THEN << "Social Withdrawal" >> ELSE << >>)
    \o (IF s["irritability"] >= 60 THEN << "Irritability Spike" >> ELSE << >>)
    \o (IF s["energy"] <= 30 THEN << "Low Energy Pattern" >> ELSE << >>)
    \o (IF s["suicidal"] > 0 THEN << "Suicidal Ideation" >> ELSE << >>)
    \o (IF s["selfharm"] > 0 THEN << "Self-harm Thoughts" >> ELSE << >>)

CouldNotMsg == "Final distress score could not be computed."

(* ----------------------------------------------------------------------- *)
(* State                                                                    *)
(* ----------------------------------------------------------------------- *)
VARIABLES
    slider,          \* the fifteen st.slider values, in tenths
    free_text,       \* the st.text_area value
    base,            \* the slider values the session was entered with
    run,             \* the page shows the results of a run of the handler
    is_emg,          \* keyword_emergency_check(free_text)[0]
    found,           \* keyword_emergency_check(free_text)[1]
    pre_emergency,   \* the emergency alert was shown before the computation
    fuzzy_score,     \* score as the try/except leaves it
    score,           \* score after the crisis override
    crisis_trigger,
    risk,            \* the risk level written, NoRisk when none is written
    patterns,        \* the pattern list, Absent when none is built
    recs,            \* the recommendation list, Absent when none is built
    message,         \* the text written by the branch for a missing score
    call,            \* a call of a helper on its own: its name and arguments
    ret              \* the value that call returned

vars ==
    << slider, free_text, base, run, is_emg, found, pre_emergency, fuzzy_score,
       score, crisis_trigger, risk, patterns, recs, message, call, ret >>

results ==
    << is_emg, found, pre_emergency, fuzzy_score, score, crisis_trigger, risk,
       patterns, recs, message >>

suicidal_val == slider["suicidal"]
selfharm_val == slider["selfharm"]
inputs == [ k \in AntecedentSet |-> slider[k] ]

(* bounds of the exploration *)
MaxMoves == 4

HopelessText == << "I", " ", "f", "e", "e", "l", " ", "h", "o", "p", "e", "l", "e", "s", "s", " ", "b", "u", "t", " ", "f", "i", "n", "e" >>
KillMyselfText == << "I", " ", "w", "a", "n", "t", " ", "t", "o", " ", "k", "i", "l", "l", " ", "m", "y", "s", "e", "l", "f" >>

Texts == { << >>, HopelessText, KillMyselfText }

(* the values a slider is moved to *)
Vals(k) ==
    IF k \in {"anxiety", "sadness"} THEN {0, 50, 100}
    ELSE IF k = "stress" THEN {0, 50, 90, 100}
    ELSE IF k = "sleep_quality" THEN {0, 10, 40, 50}
    ELSE IF k = "suicidal" THEN {0, 1, 50, 70}
    ELSE IF k = "selfharm" THEN {0, 40}
    ELSE IF k \in {"happiness", "energy", "appetite", "workload"} THEN {0, 50}
    ELSE {}

(* every slider is created at 0.0, the text area empty *)
Defaults == [ k \in SliderNames |-> SliderMin ]
AllMid == [ k \in SliderNames |-> IF k \in AntecedentSet THEN 50 ELSE SliderMin ]

Profiles == { Defaults, AllMid }

NoResults ==
    /\ run = FALSE
    /\ is_emg = FALSE /\ found = << >> /\ pre_emergency = FALSE
    /\ fuzzy_score = None /\ score = None /\ crisis_trigger = FALSE
    /\ risk = NoRisk /\ patterns = Absent /\ recs = Absent /\ message = ""

ClearResults ==
    /\ run' = FALSE
    /\ is_emg' = FALSE /\ found' = << >> /\ pre_emergency' = FALSE
    /\ fuzzy_score' = None /\ score' = None /\ crisis_trigger' = FALSE
    /\ risk' = NoRisk /\ patterns' = Absent /\ recs' = Absent /\ message' = ""

NoCall == call = << >> /\ ret = << >>

Init ==
    /\ slider \in Profiles
    /\ base = slider
    /\ free_text = << >>
    /\ NoResults
    /\ NoCall

(* ----------------------------------------------------------------------- *)
(* Actions                                                                  *)
(* ----------------------------------------------------------------------- *)
Moved(s, t) ==
    Cardinality({ k \in SliderNames : s[k] # base[k] })
        + (IF t # << >> THEN 1 ELSE 0)

(* a widget changes: the script runs again without the button, so the page  *)
(* shows no results                                                         *)
SetSlider(k, v) ==
    /\ v >= SliderMin /\ v <= SliderMax
    /\ slider[k] # v
    /\ Moved([slider EXCEPT ![k] = v], free_text) <= MaxMoves
    /\ slider' = [slider EXCEPT ![k] = v]
    /\ ClearResults
    /\ UNCHANGED << free_text, base, call, ret >>

SetText(t) ==
    /\ free_text # t
    /\ Moved(slider, t) <= MaxMoves
    /\ free_text' = t
    /\ ClearResults
    /\ UNCHANGED << slider, base, call, ret >>

(* if st.button("Run Fuzzy Assessment"): the whole handler *)
Run ==
    /\ run' = TRUE
    /\ is_emg' = keyword_emergency_check(free_text)[1]
    /\ found' = keyword_emergency_check(free_text)[2]
    /\ pre_emergency' = (suicidal_val > 0 \/ selfharm_val > 0 \/ is_emg')
    /\ fuzzy_score' = compute(inputs)
    /\ score' = crisis_override(fuzzy_score', suicidal_val, selfharm_val, is_emg')[1]
    /\ crisis_trigger' =
           crisis_override(fuzzy_score', suicidal_val, selfharm_val, is_emg')[2]
    /\ IF score' # None
       THEN /\ risk' = risk_level(score')
            /\ patterns' = detect_patterns(slider)
            /\ recs' = generate_recommendations(score', patterns', crisis_trigger')
            /\ message' = ""
       ELSE /\ risk' = NoRisk
            /\ patterns' = Absent
            /\ recs' = Absent
            /\ message' = CouldNotMsg
    /\ UNCHANGED << slider, free_text, base, call, ret >>

Next ==
    \/ \E k \in SliderNames : \E v \in Vals(k) : SetSlider(k, v)
    \/ \E t \in Texts : SetText(t)
    \/ Run

Spec == Init /\ [][Next]_vars

(* ----------------------------------------------------------------------- *)
(* The helpers called on their own                                          *)
(* ----------------------------------------------------------------------- *)
NearMisses ==
    { << "k", "i", "l", "l" >>, << "k", "i", "l", "l", "i", "n", "g" >>, << "h", "u", "r", "t" >>, << "d", "e", "a", "d" >>, << "d", "i", " ", "e" >>, << "s", "u", "i", "c", "i", "d" >>, << "n", "o", " ", " ", "p", "o", "i", "n", "t" >>, << "h", "o", "p", "e" >> }

Fragments == SeqRange(keywords) \cup NearMisses

Prefixes == { << >>, << "I", " ", "f", "e", "e", "l", " " >>, << "s" >> }
Suffixes == { << >>, << " ", "b", "u", "t", " ", "f", "i", "n", "e" >>, << "d" >> }

to_upper(c) ==
    IF \E j \in 1..Len(LowerCase) : LowerCase[j] = c
    THEN UpperCase[CHOOSE j \in 1..Len(LowerCase) : LowerCase[j] = c]
    ELSE c

RECURSIVE upper(_)
upper(text) ==
    IF text = << >> THEN << >>
    ELSE << to_upper(Head(text)) >> \o upper(Tail(text))

capitalize(text) ==
    IF text = << >> THEN << >> ELSE << to_upper(Head(text)) >> \o Tail(text)

PlainTexts ==
    { p \o f \o q : p \in Prefixes, f \in Fragments, q \in Suffixes }
    \cup { f \o << " ", "a", "n", "d", " " >> \o g : f \in Fragments, g \in Fragments }

KwTexts ==
    { Absent, << >> } \cup PlainTexts
    \cup { upper(t) : t \in PlainTexts } \cup { capitalize(t) : t \in PlainTexts }

Tags == [ i \in 1..Len(PatternMsgs) |-> PatternMsgs[i][1] ]

(* the tags of the bits of m, in detector order *)
RECURSIVE SubList(_, _)
SubList(tags, m) ==
    IF tags = << >> THEN << >>
    ELSE (IF m % 2 = 1 THEN << Head(tags) >> ELSE << >>)
         \o SubList(Tail(tags), m \div 2)

Reverse(s) == [ i \in 1..Len(s) |-> s[Len(s) + 1 - i] ]

PatternLists ==
    { SubList(Tags, m) : m \in 0..511 }
    \cup { Reverse(SubList(Tags, m)) : m \in 0..511 }
    \cup { SubList(Tags, m) \o SubList(Tags, m) : m \in {1, 5, 130, 384} }

ScoreSamples ==
    { None, Rat(0, 1), Rat(4, 3), Rat(2, 1), Rat(201, 100), Rat(4, 1),
      Rat(401, 100), Rat(5, 1), Rat(6, 1), Rat(601, 100), Rat(8, 1),
      Rat(801, 100), Rat(19, 2), Rat(10, 1) }

(* the breakpoints of the terms of add_lmh and of distress, in tenths *)
Triangles ==
    { << 0, 0, 40 >>, << 20, 50, 80 >>, << 60, 100, 100 >>, << 30, 50, 70 >> }

InitFn ==
    /\ slider = Defaults
    /\ base = slider
    /\ free_text = << >>
    /\ NoResults
    /\ ret = << >>
    /\ \/ \E text \in KwTexts : call = << "keyword_emergency_check", text >>
       \/ \E s \in ScoreSamples : \E p \in PatternLists : \E c \in BOOLEAN :
            call = << "generate_recommendations", s, p, c >>
       \/ \E x \in DOMAIN u : \E abc \in Triangles :
            call = << "trimf", u[x], abc >>

Call_keyword_emergency_check ==
    /\ call # << >> /\ call[1] = "keyword_emergency_check"
    /\ ret = << >>
    /\ ret' = keyword_emergency_check(call[2])
    /\ UNCHANGED << slider, free_text, base, run, results, call >>

Call_generate_recommendations ==
    /\ call # << >> /\ call[1] = "generate_recommendations"
    /\ ret = << >>
    /\ ret' = generate_recommendations(call[2], call[3], call[4])
    /\ UNCHANGED << slider, free_text, base, run, results, call >>

(* fuzz.trimf at one point of the universe *)
Call_trimf ==
    /\ call # << >> /\ call[1] = "trimf"
    /\ ret = << >>
    /\ ret' = << trimf(call[2], call[3]) >>
    /\ UNCHANGED << slider, free_text, base, run, results, call >>

NextFn ==
    \/ Call_keyword_emergency_check
    \/ Call_generate_recommendations
    \/ Call_trimf

SpecFn == InitFn /\ [][NextFn]_vars

(* ----------------------------------------------------------------------- *)
(* Runs of the handler on slider values around the pattern thresholds       *)
(* ----------------------------------------------------------------------- *)
ThresholdVals(k) ==
    IF k = "appetite" THEN {30, 31, 79, 80}
    ELSE IF k = "sleep_quality" THEN {40, 41}
    ELSE IF k \in {"motivation", "energy"} THEN {30, 31}
    ELSE IF k \in {"anxiety", "irritability"} THEN {59, 60}
    ELSE IF k = "social" THEN {20, 21}
    ELSE IF k = "suicidal" THEN {0, 1, 39}
    ELSE IF k = "selfharm" THEN {0, 1}
    ELSE IF k = "stress" THEN {0, 50, 100}
    ELSE {AllMid[k]}

InitThresholds ==
    /\ \E ap \in ThresholdVals("appetite"), sl \in ThresholdVals("sleep_quality"),
          mo \in ThresholdVals("motivation"), an \in ThresholdVals("anxiety"),
          so \in ThresholdVals("social"), ir \in ThresholdVals("irritability"),
          en \in ThresholdVals("energy"), su \in ThresholdVals("suicidal"),
          sh \in ThresholdVals("selfharm"), st \in ThresholdVals("stress") :
            slider = [ AllMid EXCEPT
                         !["appetite"] = ap, !["sleep_quality"] = sl,
                         !["motivation"] = mo, !["anxiety"] = an,
                         !["social"] = so, !["irritability"] = ir,
                         !["energy"] = en, !["suicidal"] = su,
                         !["selfharm"] = sh, !["stress"] = st ]
    /\ base = slider
    /\ free_text = << >>
    /\ NoResults
    /\ NoCall

SpecThresholds == InitThresholds /\ [][Run]_vars

(* ----------------------------------------------------------------------- *)
(* Properties                                                               *)
(* ----------------------------------------------------------------------- *)
Tier1 == suicidal_val >= 70 \/ selfharm_val >= 70 \/ is_emg
Tier2 == suicidal_val >= 40 \/ selfharm_val >= 40
Tier3 == suicidal_val > 0 \/ selfharm_val > 0

(* max(s, floor) with a missing s counted as 0 *)
Floored(s, floor) ==
    IF s = None THEN floor ELSE IF RatLt(s, floor) THEN floor ELSE s

InRange(s) == RatLeq(Rat(0, 1), s) /\ RatLeq(s, Rat(10, 1))

(* C1: after a run the final score is max(s, 9.5) when a slider is >= 7 or  *)
(* the text is an emergency, else max(s, 8.0) when a slider is >= 4, else   *)
(* max(s, 6.0) when a slider is > 0, else the fuzzy score s unchanged (s    *)
(* missing counts as 0 under a floor); the crisis flag is set exactly in    *)
(* the first three cases; the final score is never below the fuzzy score.   *)
C1_OverrideIsPriorityFloor ==
    run =>
        /\ Tier1 => score = Floored(fuzzy_score, Rat(19, 2)) /\ crisis_trigger
        /\ (~Tier1 /\ Tier2) =>
                score = Floored(fuzzy_score, Rat(8, 1)) /\ crisis_trigger
        /\ (~Tier1 /\ ~Tier2 /\ Tier3) =>
                score = Floored(fuzzy_score, Rat(6, 1)) /\ crisis_trigger
        /\ (~Tier1 /\ ~Tier2 /\ ~Tier3) =>
                score = fuzzy_score /\ ~crisis_trigger
        /\ fuzzy_score # None =>
                score # None /\ (score = fuzzy_score \/ RatLt(fuzzy_score, score))

(* a run in the middle tier whose fuzzy score is already above the floor 8.0 *)
C1_Witness ==
    /\ run /\ ~Tier1 /\ Tier2
    /\ fuzzy_score # None /\ RatLt(Rat(8, 1), fuzzy_score)
    /\ score = fuzzy_score /\ crisis_trigger

(* C2: in every run at least one of the 36 rules fires, so the aggregated   *)
(* set is not zero everywhere and the fuzzy stage yields a score.           *)
C2_SomeRuleAlwaysFires ==
    run =>
        /\ \E r \in 1..Len(rules) : aggregate_firing(r, inputs) > 0
        /\ fuzzy_score # None

(* C3 as claimed: whenever the fuzzy stage fails, no risk label, no pattern *)
(* list, and the recommendation list is the single "Unable to compute       *)
(* distress score." message.                                                *)
C3_FailedRunShowsUnableMessage ==
    (run /\ fuzzy_score = None) =>
        risk = NoRisk /\ patterns = Absent /\ recs = << UnableMsg >>

(* C3 amended: whenever the fuzzy stage fails and no override tier applies, *)
(* the score stays missing and the page shows no risk label, no pattern     *)
(* list and no recommendation list, only the notice that the score could    *)
(* not be computed; when a tier applies the score is the floor of that tier *)
(* and the risk label, the patterns and the recommendations are produced    *)
(* from it.  The "Unable to compute" message is never shown.                *)
C3_FailedRun ==
    (run /\ fuzzy_score = None) =>
        /\ ~(Tier1 \/ Tier2 \/ Tier3) =>
              /\ score = None /\ ~crisis_trigger
              /\ risk = NoRisk /\ patterns = Absent /\ recs = Absent
              /\ message = CouldNotMsg
        /\ (Tier1 \/ Tier2 \/ Tier3) =>
              /\ score = (IF Tier1 THEN Rat(19, 2)
                          ELSE IF Tier2 THEN Rat(8, 1) ELSE Rat(6, 1))
              /\ crisis_trigger
              /\ risk = (IF Tier1 \/ Tier2 THEN "HIGH" ELSE "MODERATE")
              /\ patterns = detect_patterns(slider)
              /\ recs # Absent
              /\ recs[1] = (IF Tier1 THEN VeryHighMsg
                            ELSE IF Tier2 THEN HighMsg ELSE ModerateMsg)
              /\ recs[Len(recs)] = CrisisMsg
              /\ message = ""
        /\ UnableMsg \notin SeqRange(recs)

(* a failed fuzzy stage followed by an override *)
C3_Witness ==
    run /\ fuzzy_score = None /\ crisis_trigger /\ score # None

(* C4: the centroid score lies in [0, 10], and so does the score after the  *)
(* override whenever there is one.                                          *)
C4_ScoreInRange ==
    run =>
        /\ fuzzy_score # None => InRange(fuzzy_score)
        /\ score # None => InRange(score)

(* a run whose centroid score was raised by the override *)
C4_Witness ==
    /\ run /\ fuzzy_score # None /\ score # None
    /\ score # fuzzy_score /\ crisis_trigger

ScenarioA == slider = Defaults /\ free_text = << >>
ScenarioB ==
    /\ slider = [ AllMid EXCEPT !["stress"] = 90, !["sleep_quality"] = 10 ]
    /\ free_text = << >>
ScenarioC == slider = [ Defaults EXCEPT !["suicidal"] = 50 ] /\ free_text = << >>

SuicidalMsg == PatternMsgs[8][2]

(* C5 as claimed: with suicidal = 5, every other slider 0 and no text, the  *)
(* run sets the crisis flag, floors the score at 8.0, lists "Suicidal       *)
(* Ideation", and recommends the very-high-distress message, the suicidal   *)
(* ideation message and the crisis message.                                 *)
C5_ScenarioC_VeryHighBand ==
    (run /\ ScenarioC) =>
        /\ crisis_trigger /\ score = Rat(8, 1)
        /\ "Suicidal Ideation" \in SeqRange(patterns)
        /\ VeryHighMsg \in SeqRange(recs)
        /\ SuicidalMsg \in SeqRange(recs)
        /\ CrisisMsg \in SeqRange(recs)

(* C5 amended: the same, with the high-distress band message (the band of   *)
(* 6 < score <= 8) in place of the very-high one, which is not recommended. *)
C5_ScenarioC_HighBand ==
    (run /\ ScenarioC) =>
        /\ crisis_trigger /\ score = Rat(8, 1)
        /\ "Suicidal Ideation" \in SeqRange(patterns)
        /\ recs[1] = HighMsg
        /\ VeryHighMsg \notin SeqRange(recs)
        /\ SuicidalMsg \in SeqRange(recs)
        /\ CrisisMsg \in SeqRange(recs)

C5_Witness == run /\ ScenarioC /\ fuzzy_score # None /\ score # fuzzy_score

(* C6 as claimed: with every slider 0 and no text, the score is at most 2,  *)
(* the risk is LOW, no crisis, the patterns include Low Motivation, Social  *)
(* Withdrawal and Low Energy Pattern, and the first recommendation is the   *)
(* low band message.                                                        *)
C6_ScenarioA_Low ==
    (run /\ ScenarioA) =>
        /\ score # None /\ RatLeq(score, Rat(2, 1))
        /\ risk = "LOW"
        /\ ~crisis_trigger
        /\ {"Low Motivation", "Social Withdrawal", "Low Energy Pattern"}
               \subseteq SeqRange(patterns)
        /\ recs[1] = LowMsg

(* C6 amended: with every slider 0 and no text, the score is about 5 (the   *)
(* low, moderate and high output terms are all fully activated), the risk   *)
(* is MODERATE, no crisis, the patterns include the three tags, and the     *)
(* first recommendation is the moderate band message.                       *)
C6_ScenarioA_Moderate ==
    (run /\ ScenarioA) =>
        /\ score # None /\ score = fuzzy_score
        /\ RatLeq(Rat(9, 2), score) /\ RatLeq(score, Rat(11, 2))
        /\ risk = "MODERATE"
        /\ ~crisis_trigger
        /\ {"Low Motivation", "Social Withdrawal", "Low Energy Pattern"}
               \subseteq SeqRange(patterns)
        /\ recs[1] = ModerateMsg

C6_Witness ==
    /\ run /\ ScenarioA
    /\ cuts(inputs) = [ low |-> DegScale, moderate |-> DegScale, high |-> DegScale ]

(* C7 as claimed: with stress = 9, sleep quality = 1, the other eleven      *)
(* inputs 5, safety sliders 0 and no text, the score is above 6 and the     *)
(* risk is HIGH.                                                            *)
C7_ScenarioB_High ==
    (run /\ ScenarioB) =>
        /\ fuzzy_score # None /\ RatLt(Rat(6, 1), fuzzy_score)
        /\ risk = "HIGH"

(* C7 amended: the score is above 6 and at most 7 (about 6.75), and the     *)
(* risk is MODERATE.                                                        *)
C7_ScenarioB_Moderate ==
    (run /\ ScenarioB) =>
        /\ fuzzy_score # None /\ score = fuzzy_score
        /\ RatLt(Rat(6, 1), fuzzy_score) /\ RatLeq(fuzzy_score, Rat(7, 1))
        /\ risk = "MODERATE"

C7_Witness ==
    /\ run /\ ScenarioB
    /\ aggregate_firing(1, inputs) = (3 * DegScale) \div 4

(* ----------------------------------------------------------------------- *)
(* Properties of the helpers                                                *)
(* ----------------------------------------------------------------------- *)
Returned(f) == call # << >> /\ call[1] = f /\ ret # << >>

(* the positions of the tags that occur in a list *)
Present(list) == { i \in 1..Len(Tags) : \E j \in 1..Len(list) : list[j] = Tags[i] }

Rank(S, i) == Cardinality({ j \in S : j <= i })

BandOf(s) ==
    IF RatLeq(s, Rat(2, 1)) THEN LowMsg
    ELSE IF RatLeq(s, Rat(4, 1)) THEN MildMsg
    ELSE IF RatLeq(s, Rat(6, 1)) THEN ModerateMsg
    ELSE IF RatLeq(s, Rat(8, 1)) THEN HighMsg
    ELSE VeryHighMsg

(* C8: for a present score generate_recommendations returns one band        *)
(* message (low <= 2 < mild <= 4 < moderate <= 6 < high <= 8 < very high),  *)
(* then one message per tag present in the list, in detector order, then    *)
(* the crisis message as the last element exactly when the crisis flag is   *)
(* set; the fallback message is never returned.                             *)
C8_RecommendationOrder ==
    (Returned("generate_recommendations") /\ call[2] # None) =>
        LET P == Present(call[3])
            n == Cardinality(P)
        IN  /\ Len(ret) = 1 + n + (IF call[4] THEN 1 ELSE 0)
            /\ ret[1] = BandOf(call[2])
            /\ \A i \in P : ret[1 + Rank(P, i)] = PatternMsgs[i][2]
            /\ call[4] => ret[Len(ret)] = CrisisMsg
            /\ \A j \in 1..Len(ret) : ret[j] # FallbackMsg /\ ret[j] # UnableMsg

(* a returned call with a score on a band limit, several tags, the crisis flag *)
C8_Witness ==
    /\ Returned("generate_recommendations")
    /\ call[2] = Rat(8, 1) /\ call[4]
    /\ Cardinality(Present(call[3])) >= 3
    /\ Len(ret) >= 5

ThresholdHolds(i) ==
    CASE i = 1 -> slider["appetite"] <= 30 \/ slider["appetite"] >= 80
      [] i = 2 -> slider["sleep_quality"] <= 40
      [] i = 3 -> slider["motivation"] <= 30
      [] i = 4 -> slider["anxiety"] >= 60
      [] i = 5 -> slider["social"] <= 20
      [] i = 6 -> slider["irritability"] >= 60
      [] i = 7 -> slider["energy"] <= 30
      [] i = 8 -> suicidal_val > 0
      [] i = 9 -> selfharm_val > 0

(* the tags a run lists: none when it shows no pattern list *)
listed == IF patterns = Absent THEN << >> ELSE patterns

PatternsMatchThresholds ==
    LET P == { i \in 1..Len(Tags) : ThresholdHolds(i) }
    IN  /\ Len(listed) = Cardinality(P)
        /\ \A i \in P : listed[Rank(P, i)] = Tags[i]

(* C9: for every input the pattern list of a run holds exactly the tags     *)
(* whose threshold holds on the raw slider values, each once, in the fixed  *)
(* order, whatever the score.                                               *)
C9_PatternsForEveryInput == run => PatternsMatchThresholds

(* the runs that end with a score list the tags of the thresholds *)
ScoredRunsMatchThresholds == (run /\ score # None) => PatternsMatchThresholds

(* c and d are the same letter, whatever the case of c *)
SameLetter(c, d) ==
    c = d \/ \E n \in 1..Len(UpperCase) : UpperCase[n] = c /\ LowerCase[n] = d

Occurs(k, text) ==
    \E i \in 0..(Len(text) - Len(k)) :
        \A j \in 1..Len(k) : SameLetter(text[i + j], k[j])

(* C10: keyword_emergency_check returns as matches exactly the keywords     *)
(* that occur in the text whatever the case, in list order, and the flag    *)
(* exactly when one of the six triggers occurs; an empty or missing text    *)
(* gives (False, []); a text with only "hopeless", "no point", "die" or     *)
(* "death" is matched without being an emergency.                           *)
C10_KeywordCheck ==
    Returned("keyword_emergency_check") =>
        LET text == IF call[2] = Absent THEN << >> ELSE call[2]
            K == { i \in 1..Len(keywords) : Occurs(keywords[i], text) }
        IN  /\ Len(ret[2]) = Cardinality(K)
            /\ \A i \in K : ret[2][Rank(K, i)] = keywords[i]
            /\ ret[1] = (\E i \in K : i \in {1, 2, 3, 4, 5, 10})
            /\ (K # {} /\ K \subseteq {6, 7, 8, 9}) => ~ret[1]
            /\ text = << >> => ret = << FALSE, << >> >>

(* a text in capitals matched on a keyword that is no trigger *)
C10_Witness ==
    /\ Returned("keyword_emergency_check")
    /\ call[2] = upper(HopelessText)
    /\ ret = << FALSE, << keywords[7] >> >>

(* C11: for every present final score (the score after the override) the    *)
(* risk label is LOW iff score <= 3, MODERATE iff 3 < score <= 7 and HIGH   *)
(* iff score > 7; exactly one label is written.                             *)
C11_RiskLabel ==
    (run /\ score # None) =>
        /\ risk \in {"LOW", "MODERATE", "HIGH"}
        /\ (risk = "LOW") <=> RatLeq(score, Rat(3, 1))
        /\ (risk = "MODERATE") <=>
               (RatLt(Rat(3, 1), score) /\ RatLeq(score, Rat(7, 1)))
        /\ (risk = "HIGH") <=> RatLt(Rat(7, 1), score)

(* a run whose label comes from the floored score, not from the fuzzy one *)
C11_Witness ==
    /\ run /\ fuzzy_score # None /\ score # None
    /\ RatLeq(fuzzy_score, Rat(7, 1)) /\ RatLt(Rat(3, 1), fuzzy_score)
    /\ RatLt(Rat(7, 1), score)
    /\ risk = "HIGH"

(* C12 as claimed: for each of the four triangles and every grid point x,   *)
(* trimf is in [0, 1], is 0 for x <= a and for x >= c, and is 1 at x = b.   *)
C12_TrimfZeroOutside ==
    Returned("trimf") =>
        LET x == call[2]
            a == call[3][1]
            b == call[3][2]
            c == call[3][3]
        IN  /\ ret[1] >= 0 /\ ret[1] <= DegScale
            /\ (x <= a \/ x >= c) => ret[1] = 0
            /\ x = b => ret[1] = DegScale

(* C12 amended: trimf is in [0, 1], is 1 at x = b, and is 0 for x <= a and  *)
(* for x >= c at every other point; the shoulders low = (0, 0, 4) and       *)
(* high = (6, 10, 10) are 1 at their end of the universe, where a = b or    *)
(* b = c.                                                                   *)
C12_TrimfShape ==
    Returned("trimf") =>
        LET x == call[2]
            a == call[3][1]
            b == call[3][2]
            c == call[3][3]
        IN  /\ ret[1] >= 0 /\ ret[1] <= DegScale
            /\ ((x <= a \/ x >= c) /\ x # b) => ret[1] = 0
            /\ x = b => ret[1] = DegScale
            /\ (a < x /\ x < c) => ret[1] > 0

(* the shoulder low = (0, 0, 4) evaluated at 0, its foot and its peak *)
C12_Witness ==
    /\ Returned("trimf")
    /\ call[2] = 0 /\ call[3] = << 0, 0, 40 >>
    /\ ret = << DegScale >>

(* a run with one safety slider strictly between 0 and 4, the other at 0,   *)
(* and no emergency keyword in the text                                     *)
LowSuicidalOnly == 0 < suicidal_val /\ suicidal_val < 40 /\ selfharm_val = 0
LowSelfharmOnly == 0 < selfharm_val /\ selfharm_val < 40 /\ suicidal_val = 0
LowSignalRun == run /\ ~is_emg /\ (LowSuicidalOnly \/ LowSelfharmOnly)

LowSignalTag ==
    IF LowSuicidalOnly THEN "Suicidal Ideation" ELSE "Self-harm Thoughts"

(* C14 as claimed: with a safety slider strictly between 0 and 4, the other *)
(* at 0 and no emergency text, the pattern tag is emitted while the         *)
(* override has not fired: the crisis flag is false and the score is left   *)
(* unchanged.                                                               *)
C14_TagWithoutOverride ==
    LowSignalRun =>
        /\ LowSignalTag \in SeqRange(listed)
        /\ ~crisis_trigger
        /\ score = fuzzy_score

(* C14 amended: with a safety slider strictly between 0 and 4, the other at *)
(* 0 and no emergency text, the pattern tag is emitted and the override has *)
(* fired as well, in its lowest tier: the crisis flag is true and the score *)
(* is the fuzzy score floored at 6.0.                                       *)
C14_TagAndLowestTier ==
    LowSignalRun =>
        /\ LowSignalTag \in SeqRange(listed)
        /\ crisis_trigger
        /\ score # None /\ RatLeq(Rat(6, 1), score)
        /\ score = (IF RatLt(or0(fuzzy_score), Rat(6, 1))
                    THEN Rat(6, 1) ELSE fuzzy_score)

(* a run with self-harm at 0.1 whose fuzzy score the lowest tier lifts to 6 *)
C14_Witness ==
    /\ LowSignalRun /\ LowSelfharmOnly
    /\ fuzzy_score # None /\ RatLt(fuzzy_score, Rat(6, 1))
    /\ score = Rat(6, 1) /\ crisis_trigger
    /\ "Self-harm Thoughts" \in SeqRange(listed)

(* C15: in every run the emergency alert shown before the computation and   *)
(* the crisis flag agree, and when the crisis flag is set the final score   *)
(* is present and at least 6.0 (also when the fuzzy stage failed), the risk *)
(* label is not LOW, the band message is neither the low nor the mild one,  *)
(* and the crisis message is the last recommendation.                       *)
C15_CrisisRun ==
    run =>
        /\ pre_emergency <=> crisis_trigger
        /\ crisis_trigger =>
              /\ score # None /\ RatLeq(Rat(6, 1), score)
              /\ risk \in {"MODERATE", "HIGH"}
              /\ recs # Absent
              /\ recs[1] \in {ModerateMsg, HighMsg, VeryHighMsg}
              /\ recs[Len(recs)] = CrisisMsg

(* a run whose fuzzy stage failed and whose crisis flag is set *)
C15_Witness ==
    /\ run /\ crisis_trigger /\ pre_emergency
    /\ fuzzy_score = None /\ score # None
    /\ recs # Absent /\ recs[Len(recs)] = CrisisMsg

====
